---- MODULE Spec2Model ----
(***************************************************************************)
(* Model of the double-entry ledger of src/app.py (class ComptabiliteBTP   *)
(* over an SQLite database, and the "Nouvelle Transaction" form of main).  *)
(*                                                                         *)
(* Two specifications share the statement-level operators:                 *)
(*   Spec      one call after another; each action is one whole call,      *)
(*             with the statement at which an exception is raised (if any) *)
(*             chosen nondeterministically;                                *)
(*   SpecConc  two sessions, each with its own connection per call,        *)
(*             interleaved statement by statement under SQLite's           *)
(*             single-writer lock.                                         *)
(*                                                                         *)
(* Amounts and balances are SQLite REAL (IEEE binary floating point).      *)
(* They are modelled as integers (multiples of a unit) whose sums are      *)
(* rounded to MantBits significant bits, round-half-to-even, as the        *)
(* 53-bit format rounds.                                                   *)
(***************************************************************************)
EXTENDS Integers, Sequences, FiniteSets, TLC

\* ------------------------------------------------------------------ bounds

\* Largest transaction id the model assigns (AUTOINCREMENT is capped here).
MaxId == 2

\* Significant bits of a REAL in the model (53 in IEEE binary64).
MantBits == 3

\* Calls the sessions of SpecConc issue in all.
MaxCalls == 3

\* --------------------------------------------------------- REAL arithmetic

RECURSIVE Pow2(_)
Pow2(n) == IF n = 0 THEN 1 ELSE 2 * Pow2(n - 1)

\* The spacing of representable values around n >= 0.
RECURSIVE Quantum(_, _)
Quantum(n, q) == IF n \div q < Pow2(MantBits) THEN q ELSE Quantum(n, 2 * q)

RoundAbs(n) ==
    LET q  == Quantum(n, 1)
        lo == (n \div q) * q
        r  == n - lo
    IN  IF 2 * r < q THEN lo
        ELSE IF 2 * r > q THEN lo + q
        ELSE IF (n \div q) % 2 = 0 THEN lo ELSE lo + q

\* The REAL nearest to x (ties to even).
FRound(x) == IF x < 0 THEN 0 - RoundAbs(0 - x) ELSE RoundAbs(x)

\* solde_actuel + ? on REAL operands (solde_actuel - ? is the sum with the
\* negated operand: negation is exact).
FAdd(a, b) == FRound(a + b)

\* ------------------------------------------------------------------ inputs

\* comptes_principaux: the five seeded account codes.
SeedCodes == {"INVEST", "SYS_BDC", "DEP_OP", "CHARGE_FIX", "RECETTES"}

\* The options of the two account selectboxes of the form.
FormCodes == {"INVEST", "SYS_BDC", "DEP_OP", "CHARGE_FIX", "RECETTES"}

\* The options of the type selectbox of the form.
FormTypes == {"BDC", "Investissement", "Charge Fixe", "Achat Materiel", "Autre"}

Jan10 == [a |-> 2024, m |-> 1, j |-> 10]
Jan20 == [a |-> 2024, m |-> 1, j |-> 20]
Feb05 == [a |-> 2024, m |-> 2, j |-> 5]
\* datetime.date(999, 1, 10): a date before the year 1000.
Old10 == [a |-> 999, m |-> 1, j |-> 10]

Req(d, debit, credit, montant, description, type) ==
    [date_trans |-> d, compte_debit |-> debit, compte_credit |-> credit,
     montant |-> montant, description |-> description, type_trans |-> type]

\* Descriptions are sequences of characters.
DescX     == <<"x">>
DescEmpty == << >>
DescBlank == <<" ">>

\* The argument tuples the calls are tried with: valid ones, and ones that
\* break each rule of the form, alone and together, or name an account that
\* is not in the registry.
Requests ==
    { Req(Jan10, "INVEST",   "RECETTES", 6,  DescX,     "BDC"),
      Req(Jan20, "INVEST",   "SYS_BDC",  28, DescX,     "Charge Fixe"),
      Req(Feb05, "RECETTES", "INVEST",   3,  <<" ", "x">>, "BDC"),
      Req(Jan10, "INVEST",   "INVEST",   3,  DescX,     "BDC"),
      Req(Jan10, "INVEST",   "RECETTES", 0,  DescX,     "BDC"),
      Req(Jan10, "INVEST",   "RECETTES", -3, DescX,     "BDC"),
      Req(Jan10, "INVEST",   "RECETTES", 3,  DescEmpty, "BDC"),
      Req(Jan10, "INVEST",   "RECETTES", 3,  DescBlank, "BDC"),
      Req(Jan10, "INVEST",   "INVEST",   0,  DescEmpty, "BDC"),
      Req(Jan10, "XXX",      "INVEST",   3,  DescX,     "BDC"),
      Req(Jan10, "INVEST",   "XXX",      3,  DescX,     "BDC") }

\* The dates st.date_input lets through: within ten years of today.
FormDates == {Jan10, Jan20, Feb05}

\* What the widgets of the form let through: a date in the range of the
\* date input, a code and a type among the options, and
\* number_input(min_value=0.0).
FormRequests ==
    { r \in Requests \cup {Req(Jan10, "INVEST", "RECETTES", 0, DescEmpty, "BDC")} :
                       /\ r.date_trans \in FormDates
                       /\ r.compte_debit \in FormCodes
                       /\ r.compte_credit \in FormCodes
                       /\ r.type_trans \in FormTypes
                       /\ r.montant >= 0 }

NoReq == Req(Jan10, "", "", 0, DescEmpty, "")

\* The argument tuples of SpecLire: those of Spec, and one dated before the
\* year 1000.
LireRequests ==
    Requests \cup {Req(Old10, "INVEST", "RECETTES", 3, DescX, "BDC")}

\* The ids supprimer_transaction is tried with.
Ids == 1 .. (MaxId + 1)

\* The limits get_transactions is tried with: none, and 0 .. MaxId + 1.
Limits == {[given |-> FALSE, n |-> 0]} \cup
          {[given |-> TRUE, n |-> n] : n \in 0 .. (MaxId + 1)}

\* The years and months get_synthese_mensuelle is tried with (0: the
\* argument is left out), and the dates datetime.now() gives.
SynthYears  == {0, 999, 2024}
SynthMonths == {0, 1, 2}
SynthNow    == {Jan20, Feb05}

\* --------------------------------------------------------------- database

\* A database: the comptes table (code_compte -> solde_actuel), the rows of
\* the transactions table, and sqlite_sequence (the largest id ever assigned).
EmptyDb == [comptes |-> << >>, transactions |-> {}, seq |-> 0]

\* A mutant of InitDatabase: the seed accounts are written at every
\* construction.
InitDatabaseReseed(d) == [d EXCEPT !.comptes = [c \in SeedCodes |-> 0]]

\* init_database: seed the five accounts when the comptes table is empty.
InitDatabase(d) ==
    IF DOMAIN d.comptes = {}
    THEN [d EXCEPT !.comptes = [c \in SeedCodes |-> 0]]
    ELSE d

\* A mutant of NewId: INTEGER PRIMARY KEY without AUTOINCREMENT, one more
\* than the largest id stored.
NewIdRowid(d) ==
    IF d.transactions = {} THEN 1
    ELSE (CHOOSE i \in {t.id : t \in d.transactions} :
              \A t \in d.transactions : t.id <= i) + 1

\* id INTEGER PRIMARY KEY AUTOINCREMENT: one more than the largest id ever
\* assigned.
NewId(d) == d.seq + 1

\* INSERT INTO transactions (...) VALUES (...): the row gets the next id.
InsertTransaction(d, r) ==
    [d EXCEPT !.transactions = @ \cup
                  {[id |-> NewId(d),
                    date_transaction |-> r.date_trans,
                    compte_debit |-> r.compte_debit,
                    compte_credit |-> r.compte_credit,
                    montant |-> FRound(r.montant),
                    description |-> r.description,
                    type_transaction |-> r.type_trans]},
              !.seq = NewId(d)]

\* UPDATE comptes SET solde_actuel = solde_actuel + ? WHERE code_compte = ?
\* (no row matches an unknown code: the statement changes nothing).
UpdateSolde(d, code, delta) ==
    IF code \in DOMAIN d.comptes
    THEN [d EXCEPT !.comptes[code] = FAdd(@, delta)]
    ELSE d

\* A mutant of SelectTransaction: WHERE id <= ?
SelectTransactionUpTo(d, id) == {t \in d.transactions : t.id <= id}

\* SELECT compte_debit, compte_credit, montant FROM transactions WHERE id = ?
SelectTransaction(d, id) == {t \in d.transactions : t.id = id}

\* A mutant of DeleteTransaction: no row is removed.
DeleteTransactionNone(d, id) == d

\* DELETE FROM transactions WHERE id = ?
DeleteTransaction(d, id) ==
    [d EXCEPT !.transactions = {t \in @ : t.id # id}]

\* A mutant of Rollback: the statements already executed are kept.
RollbackKeeps(committed, work) == work

\* A mutant of Rollback: the balance updates already executed are kept.
RollbackKeepsSoldes(committed, work) ==
    [committed EXCEPT !.comptes = work.comptes]

\* conn.rollback(): the connection's uncommitted work is dropped.
Rollback(committed, work) == committed

\* ------------------------------------------------------------ whole calls

MsgAjoutee   == "Transaction ajoutee avec succes"
MsgSupprimee == "Transaction supprimee avec succes"
MsgNonTrouvee == "Transaction non trouvee"
MsgErreur    == "Erreur"
MsgMemeCompte == "Les comptes debit et credit doivent etre differents"
MsgMontant   == "Le montant doit etre positif"
MsgDescription == "La description est obligatoire"

\* The statement of a call that raises, by its position in the try block;
\* 0 when none does.  ajouter_transaction: 1 the INSERT, 2 and 3 the two
\* UPDATEs, 4 the commit.  supprimer_transaction: 1 the SELECT, 2 and 3 the
\* two UPDATEs, 4 the DELETE, 5 the commit.
AjouterFaults   == 0 .. 4
SupprimerFaults == 0 .. 5

\* The work of ajouter_transaction after its first n statements.
AjouterWork(d, r, n) ==
    LET w1 == InsertTransaction(d, r)
        w2 == UpdateSolde(w1, r.compte_debit, r.montant)
        w3 == UpdateSolde(w2, r.compte_credit, 0 - r.montant)
    IN  CASE n = 0 -> d
          [] n = 1 -> w1
          [] n = 2 -> w2
          [] OTHER -> w3

\* ajouter_transaction(r), statement `fault` raising.
AjouterTransaction(d, r, fault) ==
    IF fault = 0
    THEN [db |-> AjouterWork(d, r, 3), ok |-> TRUE, msg |-> MsgAjoutee]
    ELSE [db |-> Rollback(d, AjouterWork(d, r, fault - 1)),
          ok |-> FALSE, msg |-> MsgErreur]

\* The work of the found branch of supprimer_transaction after n statements.
SupprimerWork(d, t, n) ==
    LET w1 == UpdateSolde(d, t.compte_debit, 0 - t.montant)
        w2 == UpdateSolde(w1, t.compte_credit, t.montant)
        w3 == DeleteTransaction(w2, t.id)
    IN  CASE n = 0 -> d
          [] n = 1 -> w1
          [] n = 2 -> w2
          [] OTHER -> w3

\* supprimer_transaction(id), statement `fault` raising.
SupprimerTransaction(d, id, fault) ==
    LET rows == SelectTransaction(d, id)
    IN  IF fault = 1
        THEN [db |-> Rollback(d, d), ok |-> FALSE, msg |-> MsgErreur]
        ELSE IF rows = {}
        THEN [db |-> d, ok |-> FALSE, msg |-> MsgNonTrouvee]
        ELSE LET t == CHOOSE x \in rows : TRUE
             IN  IF fault = 0
                 THEN [db |-> SupprimerWork(d, t, 3), ok |-> TRUE,
                       msg |-> MsgSupprimee]
                 ELSE [db |-> Rollback(d, SupprimerWork(d, t, fault - 2)),
                       ok |-> FALSE, msg |-> MsgErreur]

\* str.strip(): leading and trailing blanks removed.
RECURSIVE StripLeft(_)
StripLeft(s) ==
    IF s # << >> /\ Head(s) = " " THEN StripLeft(Tail(s)) ELSE s

RECURSIVE StripRight(_)
StripRight(s) ==
    IF s # << >> /\ s[Len(s)] = " "
    THEN StripRight(SubSeq(s, 1, Len(s) - 1))
    ELSE s

Strip(s) == StripRight(StripLeft(s))

\* A mutant of FormError: the amount is checked before the two codes.
FormErrorAmountFirst(r) ==
    IF r.montant <= 0 THEN MsgMontant
    ELSE IF r.compte_debit = r.compte_credit THEN MsgMemeCompte
    ELSE IF Strip(r.description) = << >> THEN MsgDescription
    ELSE ""

\* A mutant of FormError: an amount of 0 passes.
FormErrorZeroPasses(r) ==
    IF r.compte_debit = r.compte_credit THEN MsgMemeCompte
    ELSE IF r.montant < 0 THEN MsgMontant
    ELSE IF Strip(r.description) = << >> THEN MsgDescription
    ELSE ""

\* The checks of the form, in their order: the message of the first rule
\* the request breaks, "" when it breaks none.
FormError(r) ==
    IF r.compte_debit = r.compte_credit THEN MsgMemeCompte
    ELSE IF r.montant <= 0 THEN MsgMontant
    ELSE IF Strip(r.description) = << >> THEN MsgDescription
    ELSE ""

\* The submitted form: the checks, then ajouter_transaction.
SubmitForm(d, r, fault) ==
    IF FormError(r) # ""
    THEN [db |-> d, ok |-> FALSE, msg |-> FormError(r)]
    ELSE AjouterTransaction(d, r, fault)

\* ------------------------------------------------------------------ reads

\* The decimal digits of n >= 0, as str(n) writes them.
RECURSIVE Digits(_)
Digits(n) == IF n < 10 THEN <<n>> ELSE Append(Digits(n \div 10), n % 10)

RECURSIVE ZeroPad(_, _)
ZeroPad(s, w) == IF Len(s) >= w THEN s ELSE ZeroPad(<<0>> \o s, w)

\* str(annee) and f"{mois:02d}", the two parameters of the query.
PyStr(n)    == Digits(n)
PyFormat02d(n) == ZeroPad(Digits(n), 2)

\* strftime('%Y', date_transaction) and strftime('%m', date_transaction) on
\* the ISO text a date is stored as: four digits and two digits.
StrftimeY(d) == ZeroPad(Digits(d.a), 4)
StrftimeM(d) == ZeroPad(Digits(d.m), 2)

\* The order of the ISO texts of two dates (fixed width, zero padded).
DateKey(d) == d.a * 10000 + d.m * 100 + d.j

\* The limit argument of get_transactions: None, or a number.
NoLimit == [given |-> FALSE, n |-> 0]

\* A mutant of Truthy: "limit is not None".
TruthyNotNone(limit) == limit.given

\* "if limit:" is false for None and for 0.
Truthy(limit) == limit.given /\ limit.n # 0

\* A mutant of FirstRow: ties on the date in descending id order.
FirstRowIdDesc(rows) ==
    CHOOSE t \in rows :
        \A u \in rows :
            \/ DateKey(t.date_transaction) > DateKey(u.date_transaction)
            \/ /\ DateKey(t.date_transaction) = DateKey(u.date_transaction)
               /\ t.id >= u.id

\* The row ORDER BY date_transaction DESC puts first: the latest date; rows
\* of one date come out in the order of the table scan, by ascending id
\* (the statement names no second key, and SQLite's sorter keeps the scan
\* order of equal keys).
FirstRow(rows) ==
    CHOOSE t \in rows :
        \A u \in rows :
            \/ DateKey(t.date_transaction) > DateKey(u.date_transaction)
            \/ /\ DateKey(t.date_transaction) = DateKey(u.date_transaction)
               /\ t.id <= u.id

RECURSIVE OrderByDateDesc(_)
OrderByDateDesc(rows) ==
    IF rows = {} THEN << >>
    ELSE LET t == FirstRow(rows)
         IN  <<t>> \o OrderByDateDesc(rows \ {t})

\* At most n first elements of s.
Take(s, n) == SubSeq(s, 1, IF n < Len(s) THEN n ELSE Len(s))

\* Where a read raises: nowhere (0), or in read_sql_query (1).
LireFaults == 0 .. 1

\* get_transactions(limit): the rows of the query, or the empty DataFrame of
\* the except branch.
GetTransactions(d, limit, fault) ==
    IF fault # 0 THEN << >>
    ELSE IF Truthy(limit)
    THEN Take(OrderByDateDesc(d.transactions), limit.n)
    ELSE OrderByDateDesc(d.transactions)

\* SUM(montant) over rows: REAL additions in the order of the scan.
RECURSIVE SumReal(_)
SumReal(rows) ==
    IF rows = {} THEN 0
    ELSE LET t == CHOOSE x \in rows : \A u \in rows : x.id >= u.id
         IN  FAdd(SumReal(rows \ {t}), t.montant)

\* A mutant of InMonth: the year is not compared.
InMonthAnyYear(t, annee, mois) ==
    StrftimeM(t.date_transaction) = PyFormat02d(mois)

\* The WHERE clause of the synthesis.
InMonth(t, annee, mois) ==
    /\ StrftimeY(t.date_transaction) = PyStr(annee)
    /\ StrftimeM(t.date_transaction) = PyFormat02d(mois)

\* get_synthese_mensuelle(annee, mois) at date `now`: the rows
\* (type_transaction, total) of the GROUP BY, or the empty DataFrame of the
\* except branch.
GetSyntheseMensuelle(d, annee, mois, now, fault) ==
    LET a == IF annee = 0 THEN now.a ELSE annee
        m == IF mois = 0 THEN now.m ELSE mois
        sel == {t \in d.transactions : InMonth(t, a, m)}
    IN  IF fault # 0 THEN {}
        ELSE { [type_transaction |-> ty,
                total |-> SumReal({t \in sel : t.type_transaction = ty})] :
               ty \in {t.type_transaction : t \in sel} }

\* ------------------------------------------------------- the password gate

\* The configured password.
MotDePasse == "btp2024"

\* The passwords typed into the text input.
Passwords == {"btp2024", "btp", ""}

\* st.session_state of a new session: no key "password_correct"; `password`
\* is the value of the text input ("" when it is first shown, and after
\* "del"), `widget` tells whether the last run of main() showed the input,
\* `compta` whether the key "compta" is set; `entered` and `refused` keep
\* the last password typed and whether one was ever refused.
NoSession ==
    [password_correct |-> "absent", password |-> "", widget |-> FALSE,
     compta |-> FALSE, entered |-> "", refused |-> FALSE]

\* password_entered, the on_change callback, with p typed into the input.
PasswordEntered(ss, p) ==
    IF p = MotDePasse
    THEN [ss EXCEPT !.password_correct = "True", !.password = ""]
    ELSE [ss EXCEPT !.password_correct = "False", !.password = p]

\* A mutant of CheckPassword: the elif branch is missing.
CheckPasswordNoElif(ss) == ss.password_correct # "absent"

\* What check_password returns: True in the else branch only.
CheckPassword(ss) == ss.password_correct \notin {"absent", "False"}

\* One run of main() up to the page: st.stop() with the input shown when
\* check_password fails, else ComptabiliteBTP() unless "compta" is set.
RunMain(ss, d) ==
    IF ~CheckPassword(ss)
    THEN [ss |-> [ss EXCEPT !.widget = TRUE], db |-> d, built |-> FALSE]
    ELSE [ss |-> [ss EXCEPT !.widget = FALSE, !.compta = TRUE],
          db |-> IF ss.compta THEN d ELSE InitDatabase(d),
          built |-> ~ss.compta]

\* -------------------------------------------------------------- sessions

\* Each browser session runs main() in a thread of its own, with its own
\* ComptabiliteBTP, and every call opens its own connection.
Sessions == {"s1", "s2"}

\* The requests the sessions of SpecConc record.
ConcRequests ==
    { Req(Jan10, "INVEST", "RECETTES", 6, DescX, "BDC"),
      Req(Jan20, "INVEST", "SYS_BDC",  3, DescX, "Charge Fixe") }

\* The ids the sessions of SpecConc reverse.
ConcIds == 1 .. MaxId

\* The rows of the comptes table, as get_soldes_comptes selects them.
GetSoldesComptes(d) == d.comptes

\* The rows of the transactions table, as get_transactions selects them.
TransactionRows(d) == d.transactions

VARIABLES
    db,      \* the committed database
    call,    \* Spec: the last call, its arguments and what it returned
    trip,    \* Spec: a record followed at once by the reverse of its id
    issued,  \* Spec: the ids the successful records were given so far
    reversed, \* Spec: the ids that were reversed successfully so far
    verrou,  \* SpecConc: the session whose connection holds the write lock
    pc,      \* SpecConc: the statement each session executes next
    arg,     \* SpecConc: the arguments of each session's call
    row,     \* SpecConc: the row each session's SELECT fetched
    trav,    \* SpecConc: the database as each session's open transaction has it
    ret,     \* SpecConc: what each session's last call returned
    hist,    \* SpecConc: the calls each session made that returned without raising
    ncalls,  \* SpecConc: how many calls the sessions have issued
    vue,     \* SpecConc: what each session's last read returned
    session  \* SpecGate: st.session_state of a browser session

seqVars  == <<call, trip, issued, reversed, session>>
concVars == <<verrou, pc, arg, row, trav, ret, hist, ncalls, vue>>
vars == <<db, call, trip, issued, reversed, verrou, pc, arg, row, trav, ret,
          hist, ncalls, vue, session>>

NoCall == [op |-> "init", req |-> NoReq, id |-> 0, fault |-> 0,
           ok |-> TRUE, msg |-> "",
           limit |-> NoLimit, annee |-> 0, mois |-> 0, now |-> Jan10,
           rows |-> << >>, synth |-> {}]
NoTrip == [stage |-> "none", id |-> 0, base |-> EmptyDb]
NoArg  == [op |-> "none", req |-> NoReq, id |-> 0]
NoRow  == [id |-> 0, compte_debit |-> "", compte_credit |-> "", montant |-> 0]
NoRet  == [ok |-> TRUE, msg |-> ""]
NoVue  == [kind |-> "none", soldes |-> << >>, rows |-> {},
           writer |-> "none", step |-> "idle"]

Init ==
    /\ db = InitDatabase(EmptyDb)
    /\ call = NoCall
    /\ trip = NoTrip
    /\ issued = {}
    /\ reversed = {}
    /\ verrou = "none"
    /\ pc = [s \in Sessions |-> "idle"]
    /\ arg = [s \in Sessions |-> NoArg]
    /\ row = [s \in Sessions |-> NoRow]
    /\ trav = [s \in Sessions |-> EmptyDb]
    /\ ret = [s \in Sessions |-> NoRet]
    /\ hist = [s \in Sessions |-> << >>]
    /\ ncalls = 0
    /\ vue = [s \in Sessions |-> NoVue]
    /\ session = NoSession

\* ------------------------------------------------- Spec: one call at a time

TripAfterRecord(d, res) ==
    IF res.ok THEN [stage |-> "recorded", id |-> NewId(d), base |-> d]
    ELSE NoTrip

TripAfterReverse(id, res) ==
    IF res.ok /\ trip.stage = "recorded" /\ trip.id = id
    THEN [trip EXCEPT !.stage = "reversed"]
    ELSE NoTrip

\* What a call that writes leaves in `call`.
Called(op, r, id, fault, res) ==
    [NoCall EXCEPT !.op = op, !.req = r, !.id = id, !.fault = fault,
                   !.ok = res.ok, !.msg = res.msg]

\* The ids of the rows that d2 has and d1 has not.
AddedIds(d1, d2) == {t.id : t \in d2.transactions \ d1.transactions}

\* A form is submitted.
Form(r, fault) ==
    /\ db.seq < MaxId
    /\ LET res == SubmitForm(db, r, fault)
       IN  /\ db' = res.db
           /\ call' = Called("form", r, 0, fault, res)
           /\ trip' = TripAfterRecord(db, res)
           /\ issued' = issued \cup AddedIds(db, res.db)
    /\ UNCHANGED reversed
    /\ UNCHANGED <<session, concVars>>

\* ajouter_transaction is called with arbitrary arguments.
Ajouter(r, fault) ==
    /\ db.seq < MaxId
    /\ LET res == AjouterTransaction(db, r, fault)
       IN  /\ db' = res.db
           /\ call' = Called("ajouter", r, 0, fault, res)
           /\ trip' = TripAfterRecord(db, res)
           /\ issued' = issued \cup AddedIds(db, res.db)
    /\ UNCHANGED reversed
    /\ UNCHANGED <<session, concVars>>

\* supprimer_transaction is called.
Supprimer(id, fault) ==
    /\ LET res == SupprimerTransaction(db, id, fault)
       IN  /\ db' = res.db
           /\ call' = Called("supprimer", NoReq, id, fault, res)
           /\ trip' = TripAfterReverse(id, res)
           /\ reversed' = IF res.ok THEN reversed \cup {id} ELSE reversed
    /\ UNCHANGED issued
    /\ UNCHANGED <<session, concVars>>

\* A session starts: ComptabiliteBTP() runs init_database on the database
\* as it is.
Construire ==
    /\ db' = InitDatabase(db)
    /\ call' = [NoCall EXCEPT !.op = "init_database"]
    /\ UNCHANGED <<trip, issued, reversed>>
    /\ UNCHANGED <<session, concVars>>

\* get_transactions(limit) is called.
LireTransactionsTriees(limit, fault) ==
    /\ call' = [NoCall EXCEPT !.op = "get_transactions", !.limit = limit,
                              !.fault = fault,
                              !.rows = GetTransactions(db, limit, fault)]
    /\ UNCHANGED <<db, trip, issued, reversed>>
    /\ UNCHANGED <<session, concVars>>

\* get_synthese_mensuelle(annee, mois) is called at date `now`.
LireSynthese(annee, mois, now, fault) ==
    /\ call' = [NoCall EXCEPT !.op = "get_synthese_mensuelle",
                              !.annee = annee, !.mois = mois, !.now = now,
                              !.fault = fault,
                              !.synth = GetSyntheseMensuelle(db, annee, mois,
                                                             now, fault)]
    /\ UNCHANGED <<db, trip, issued, reversed>>
    /\ UNCHANGED <<session, concVars>>

Next ==
    \/ \E r \in FormRequests, f \in AjouterFaults : Form(r, f)
    \/ \E r \in Requests, f \in AjouterFaults : Ajouter(r, f)
    \/ \E id \in Ids, f \in SupprimerFaults : Supprimer(id, f)
    \/ Construire

Spec == Init /\ [][Next]_vars

\* The calls of Spec, and the two reads of the pages.
NextLire ==
    \/ \E r \in FormRequests, f \in AjouterFaults : Form(r, f)
    \/ \E r \in LireRequests, f \in AjouterFaults : Ajouter(r, f)
    \/ \E id \in Ids, f \in SupprimerFaults : Supprimer(id, f)
    \/ Construire
    \/ \E l \in Limits, f \in LireFaults : LireTransactionsTriees(l, f)
    \/ \E a \in SynthYears, m \in SynthMonths, n \in SynthNow,
          f \in LireFaults :
           LireSynthese(a, m, n, f)

SpecLire == Init /\ [][NextLire]_vars

\* ------------------------------------------- SpecGate: main() of a session

\* main() runs (the page is opened or reloaded).
Main ==
    /\ LET run == RunMain(session, db)
       IN  /\ session' = run.ss
           /\ db' = run.db
           /\ call' = IF run.built
                      THEN [NoCall EXCEPT !.op = "init_database"] ELSE call
    /\ UNCHANGED <<trip, issued, reversed>>
    /\ UNCHANGED concVars

\* Password p is typed into the input that the last run showed: the
\* callback runs, then main() again.
Saisir(p) ==
    /\ session.widget
    /\ p # session.password
    /\ LET ss  == [PasswordEntered(session, p) EXCEPT
                       !.entered = p,
                       !.refused = @ \/ p # MotDePasse]
           run == RunMain(ss, db)
       IN  /\ session' = run.ss
           /\ db' = run.db
           /\ call' = IF run.built
                      THEN [NoCall EXCEPT !.op = "init_database"] ELSE call
    /\ UNCHANGED <<trip, issued, reversed>>
    /\ UNCHANGED concVars

\* The form of the page "Nouvelle Transaction" is submitted: main() runs
\* again and, past check_password, handles it.
MainForm(r, fault) ==
    /\ CheckPassword(session)
    /\ session.compta
    /\ Form(r, fault)

\* The button of the page "Gestion" is pressed.
MainSupprimer(id, fault) ==
    /\ CheckPassword(session)
    /\ session.compta
    /\ Supprimer(id, fault)

\* A page that lists the transactions is shown.
MainLire(limit, fault) ==
    /\ CheckPassword(session)
    /\ session.compta
    /\ LireTransactionsTriees(limit, fault)

NextGate ==
    \/ Main
    \/ \E p \in Passwords : Saisir(p)
    \/ \E r \in FormRequests, f \in AjouterFaults : MainForm(r, f)
    \/ \E id \in Ids, f \in SupprimerFaults : MainSupprimer(id, f)
    \/ \E l \in Limits, f \in LireFaults : MainLire(l, f)

SpecGate == Init /\ [][NextGate]_vars

\* --------------------------------- SpecConc: statements of two sessions

\* A mutant of Snapshot: a read sees the writer's uncommitted statements.
SnapshotDirty(s) == IF verrou = "none" THEN db ELSE trav[verrou]

\* What a statement of a connection with no open transaction reads: the
\* committed database.
Snapshot(s) == db

\* The call returns: the connection is closed and the session is idle.
Return(s, ok, msg, effective) ==
    /\ pc' = [pc EXCEPT ![s] = "idle"]
    /\ ret' = [ret EXCEPT ![s] = [ok |-> ok, msg |-> msg]]
    /\ hist' = [hist EXCEPT ![s] = IF effective THEN Append(@, arg[s]) ELSE @]

\* ajouter_transaction is entered: connect, cursor.
BeginAjouter(s, r) ==
    /\ pc[s] = "idle"
    /\ ncalls < MaxCalls
    /\ db.seq < MaxId
    /\ pc' = [pc EXCEPT ![s] = "aj_insert"]
    /\ arg' = [arg EXCEPT ![s] = [op |-> "ajouter", req |-> r, id |-> 0]]
    /\ ncalls' = ncalls + 1
    /\ vue' = [vue EXCEPT ![s] = NoVue]
    /\ UNCHANGED <<db, verrou, row, trav, ret, hist, seqVars>>

\* The INSERT: the connection's transaction begins and takes the write lock.
AjInsert(s) ==
    /\ pc[s] = "aj_insert"
    /\ verrou = "none"
    /\ verrou' = s
    /\ trav' = [trav EXCEPT ![s] = InsertTransaction(Snapshot(s), arg[s].req)]
    /\ pc' = [pc EXCEPT ![s] = "aj_debit"]
    /\ UNCHANGED <<db, arg, row, ret, hist, ncalls, vue, seqVars>>

\* The UPDATE of the debit account.
AjDebit(s) ==
    /\ pc[s] = "aj_debit"
    /\ trav' = [trav EXCEPT ![s] =
                   UpdateSolde(@, arg[s].req.compte_debit, arg[s].req.montant)]
    /\ pc' = [pc EXCEPT ![s] = "aj_credit"]
    /\ UNCHANGED <<db, verrou, arg, row, ret, hist, ncalls, vue, seqVars>>

\* The UPDATE of the credit account.
AjCredit(s) ==
    /\ pc[s] = "aj_credit"
    /\ trav' = [trav EXCEPT ![s] =
                   UpdateSolde(@, arg[s].req.compte_credit,
                               0 - arg[s].req.montant)]
    /\ pc' = [pc EXCEPT ![s] = "aj_commit"]
    /\ UNCHANGED <<db, verrou, arg, row, ret, hist, ncalls, vue, seqVars>>

\* conn.commit(): the transaction's work becomes the database.
Commit(s, msg) ==
    /\ verrou = s
    /\ db' = trav[s]
    /\ verrou' = "none"
    /\ trav' = [trav EXCEPT ![s] = EmptyDb]
    /\ row' = [row EXCEPT ![s] = NoRow]
    /\ Return(s, TRUE, msg, TRUE)
    /\ UNCHANGED <<arg, ncalls, vue, seqVars>>

AjCommit(s) ==
    /\ pc[s] = "aj_commit"
    /\ Commit(s, MsgAjoutee)

\* supprimer_transaction is entered: connect, cursor.
BeginSupprimer(s, id) ==
    /\ pc[s] = "idle"
    /\ ncalls < MaxCalls
    /\ pc' = [pc EXCEPT ![s] = "sup_select"]
    /\ arg' = [arg EXCEPT ![s] = [op |-> "supprimer", req |-> NoReq, id |-> id]]
    /\ ncalls' = ncalls + 1
    /\ vue' = [vue EXCEPT ![s] = NoVue]
    /\ UNCHANGED <<db, verrou, row, trav, ret, hist, seqVars>>

\* The SELECT and fetchone(): no transaction is open yet.  With no row the
\* call returns not found.
SupSelect(s) ==
    /\ pc[s] = "sup_select"
    /\ LET rows == SelectTransaction(Snapshot(s), arg[s].id)
       IN  IF rows = {}
           THEN /\ Return(s, FALSE, MsgNonTrouvee, TRUE)
                /\ UNCHANGED row
           ELSE /\ row' = [row EXCEPT ![s] =
                              LET t == CHOOSE x \in rows : TRUE
                              IN  [id |-> t.id,
                                   compte_debit |-> t.compte_debit,
                                   compte_credit |-> t.compte_credit,
                                   montant |-> t.montant]]
                /\ pc' = [pc EXCEPT ![s] = "sup_debit"]
                /\ UNCHANGED <<ret, hist>>
    /\ UNCHANGED <<db, verrou, arg, trav, ncalls, vue, seqVars>>

\* The UPDATE of the debit account, with the amount the SELECT fetched: the
\* connection's transaction begins and takes the write lock.
SupDebit(s) ==
    /\ pc[s] = "sup_debit"
    /\ verrou = "none"
    /\ verrou' = s
    /\ trav' = [trav EXCEPT ![s] =
                   UpdateSolde(Snapshot(s), row[s].compte_debit,
                               0 - row[s].montant)]
    /\ pc' = [pc EXCEPT ![s] = "sup_credit"]
    /\ UNCHANGED <<db, arg, row, ret, hist, ncalls, vue, seqVars>>

\* The UPDATE of the credit account.
SupCredit(s) ==
    /\ pc[s] = "sup_credit"
    /\ trav' = [trav EXCEPT ![s] =
                   UpdateSolde(@, row[s].compte_credit, row[s].montant)]
    /\ pc' = [pc EXCEPT ![s] = "sup_delete"]
    /\ UNCHANGED <<db, verrou, arg, row, ret, hist, ncalls, vue, seqVars>>

\* The DELETE.
SupDelete(s) ==
    /\ pc[s] = "sup_delete"
    /\ trav' = [trav EXCEPT ![s] = DeleteTransaction(@, arg[s].id)]
    /\ pc' = [pc EXCEPT ![s] = "sup_commit"]
    /\ UNCHANGED <<db, verrou, arg, row, ret, hist, ncalls, vue, seqVars>>

SupCommit(s) ==
    /\ pc[s] = "sup_commit"
    /\ Commit(s, MsgSupprimee)

\* The statement a session is at raises (the write lock is not granted in
\* time, the disk fails): except, conn.rollback(), return False.
Raise(s) ==
    /\ pc[s] # "idle"
    /\ db' = Rollback(db, IF verrou = s THEN trav[s] ELSE db)
    /\ verrou' = IF verrou = s THEN "none" ELSE verrou
    /\ trav' = [trav EXCEPT ![s] = EmptyDb]
    /\ row' = [row EXCEPT ![s] = NoRow]
    /\ Return(s, FALSE, MsgErreur, FALSE)
    /\ UNCHANGED <<arg, ncalls, vue, seqVars>>

\* get_soldes_comptes: one SELECT on a connection of its own.
LireSoldes(s) ==
    /\ pc[s] = "idle"
    /\ vue' = [vue EXCEPT ![s] =
                  [kind |-> "soldes",
                   soldes |-> GetSoldesComptes(Snapshot(s)),
                   rows |-> {},
                   writer |-> verrou,
                   step |-> IF verrou = "none" THEN "idle" ELSE pc[verrou]]]
    /\ UNCHANGED <<db, verrou, pc, arg, row, trav, ret, hist, ncalls, seqVars>>

\* get_transactions: one SELECT on a connection of its own.
LireTransactions(s) ==
    /\ pc[s] = "idle"
    /\ vue' = [vue EXCEPT ![s] =
                  [kind |-> "transactions",
                   soldes |-> << >>,
                   rows |-> TransactionRows(Snapshot(s)),
                   writer |-> verrou,
                   step |-> IF verrou = "none" THEN "idle" ELSE pc[verrou]]]
    /\ UNCHANGED <<db, verrou, pc, arg, row, trav, ret, hist, ncalls, seqVars>>

NextConc ==
    \/ \E s \in Sessions, r \in ConcRequests : BeginAjouter(s, r)
    \/ \E s \in Sessions : AjInsert(s)
    \/ \E s \in Sessions : AjDebit(s)
    \/ \E s \in Sessions : AjCredit(s)
    \/ \E s \in Sessions : AjCommit(s)
    \/ \E s \in Sessions, id \in ConcIds : BeginSupprimer(s, id)
    \/ \E s \in Sessions : SupSelect(s)
    \/ \E s \in Sessions : SupDebit(s)
    \/ \E s \in Sessions : SupCredit(s)
    \/ \E s \in Sessions : SupDelete(s)
    \/ \E s \in Sessions : SupCommit(s)
    \/ \E s \in Sessions : Raise(s)
    \/ \E s \in Sessions : LireSoldes(s)
    \/ \E s \in Sessions : LireTransactions(s)

SpecConc == Init /\ [][NextConc]_vars

\* ------------------------------------------------- claims on single calls

RECURSIVE SumSoldes(_, _)
SumSoldes(f, S) ==
    IF S = {} THEN 0
    ELSE LET c == CHOOSE x \in S : TRUE IN f[c] + SumSoldes(f, S \ {c})

RECURSIVE SumMontants(_)
SumMontants(rows) ==
    IF rows = {} THEN 0
    ELSE LET t == CHOOSE x \in rows : TRUE
         IN  t.montant + SumMontants(rows \ {t})

\* C1: in every reachable state the balances of all the accounts of the
\* registry sum to exactly 0.
C1_SumZero == SumSoldes(db.comptes, DOMAIN db.comptes) = 0

\* C2: every account's balance is the sum of the amounts of the stored
\* transactions that debit it minus the sum of those that credit it.
C2_BalanceIsLedgerSum ==
    \A c \in DOMAIN db.comptes :
        db.comptes[c] =
            SumMontants({t \in db.transactions : t.compte_debit = c})
            - SumMontants({t \in db.transactions : t.compte_credit = c})

\* C3: a successful record followed at once by the reverse of the id it was
\* given leaves every balance, and the set of stored transactions, as they
\* were before the record.
C3_RoundTrip ==
    trip.stage = "reversed" =>
        /\ db.comptes = trip.base.comptes
        /\ db.transactions = trip.base.transactions

\* The requests the form's three rules are about.
BreaksFormRule(r) ==
    \/ r.compte_debit = r.compte_credit
    \/ r.montant <= 0
    \/ r.description = << >>

C5_UnknownAccountRejected ==
    (/\ call.op \in {"form", "ajouter"}
     /\ \/ call.req.compte_debit \notin DOMAIN db.comptes
        \/ call.req.compte_credit \notin DOMAIN db.comptes)
    => ~call.ok

\* C6: supprimer_transaction on an id that is not stored returns the
\* not-found failure, which is not the error failure, and changes nothing.
C6_UnknownIdNotFound ==
    [][(/\ call'.op = "supprimer"
        /\ call'.fault # 1
        /\ \A t \in db.transactions : t.id # call'.id) =>
           /\ ~call'.ok
           /\ call'.msg = MsgNonTrouvee
           /\ call'.msg # MsgErreur
           /\ db' = db]_vars

C6_Witness ==
    /\ call.op = "supprimer"
    /\ call.msg = MsgNonTrouvee
    /\ db.transactions # {}
    /\ call.id <= db.seq

\* C7: a record in which a statement or the commit raises returns failure
\* and leaves the balances and the stored transactions as before the call.
C7_RecordAllOrNothing ==
    [][(/\ \/ call'.op = "ajouter"
           \/ call'.op = "form" /\ FormError(call'.req) = ""
        /\ call'.fault # 0) =>
           /\ ~call'.ok
           /\ db' = db]_vars

C7_Witness ==
    /\ call.op = "ajouter"
    /\ call.fault = 3
    /\ call.msg = MsgErreur
    /\ db.transactions # {}

\* C8: a reverse of a stored id in which a statement or the commit raises
\* returns failure and leaves the balances and the stored transactions as
\* before the call: the transaction is still stored.
C8_ReverseAllOrNothing ==
    [][(/\ call'.op = "supprimer"
        /\ call'.fault # 0
        /\ \E t \in db.transactions : t.id = call'.id) =>
           /\ ~call'.ok
           /\ db' = db
           /\ \E t \in db'.transactions : t.id = call'.id]_vars

C8_Witness ==
    /\ call.op = "supprimer"
    /\ call.fault = 4
    /\ call.msg = MsgErreur
    /\ \E t \in db.transactions : t.id = call.id /\ t.montant # 0

\* ----------------------------------------------- claims on the sessions

\* What a call that returned does to a database when it runs alone.
ApplyCall(d, a) ==
    IF a.op = "ajouter"
    THEN AjouterTransaction(d, a.req, 0).db
    ELSE SupprimerTransaction(d, a.id, 0).db

\* The databases the calls of h produce when run one after another, in
\* every order that keeps each session's own order.
RECURSIVE SerialOutcomes(_, _)
SerialOutcomes(d, h) ==
    LET left == {s \in DOMAIN h : h[s] # << >>}
    IN  IF left = {} THEN {d}
        ELSE UNION { SerialOutcomes(ApplyCall(d, Head(h[s])),
                                    [h EXCEPT ![s] = Tail(@)]) : s \in left }

\* C9: when every call has returned, the balances and the stored
\* transactions are those of the calls run one after another in some order.
C9_Serializable ==
    (\A s \in Sessions : pc[s] = "idle") =>
        \E d \in SerialOutcomes(InitDatabase(EmptyDb), hist) :
            /\ d.comptes = db.comptes
            /\ d.transactions = db.transactions

\* The debit and credit accounts of the call session w is executing.
CallDebit(w) ==
    IF arg[w].op = "ajouter" THEN arg[w].req.compte_debit
    ELSE row[w].compte_debit
CallCredit(w) ==
    IF arg[w].op = "ajouter" THEN arg[w].req.compte_credit
    ELSE row[w].compte_credit

\* View v shows account x with a balance that is not the committed one.
ShowsDelta(v, x) ==
    x \in DOMAIN v.soldes /\ v.soldes[x] # db.comptes[x]

\* View v shows the call of w half applied: the delta of one of its two
\* accounts and not the other's, or its uncommitted insert or delete.
HalfApplied(v, w) ==
    \/ /\ v.kind = "soldes"
       /\ ShowsDelta(v, CallDebit(w)) # ShowsDelta(v, CallCredit(w))
    \/ /\ v.kind = "transactions"
       /\ v.rows # db.transactions

\* C10: a read made while another session's record or reverse is between
\* its first statement and its commit does not show that call half applied.
C10_NoHalfAppliedRead ==
    [][\A s \in Sessions :
          (vue'[s] # vue[s] /\ vue'[s].kind # "none") =>
              \A w \in Sessions \ {s} :
                  verrou = w => ~HalfApplied(vue'[s], w)]_vars

\* A balance read made when the writer had applied its debit delta only,
\* and a row read made when the writer had inserted or deleted its row.
C10_Witness ==
    \E s \in Sessions :
        /\ vue[s].kind = "soldes"
        /\ vue[s].writer \notin {"none", s}
        /\ vue[s].step \in {"aj_credit", "sup_credit"}
        /\ \E c \in DOMAIN vue[s].soldes : vue[s].soldes[c] # 0

\* ------------------------------------------- claims on effects and reads

\* The arguments the rules of a record accept: two different registered
\* accounts, a positive amount, a description that is not empty.
ValidArgs(d, r) ==
    /\ r.compte_debit # r.compte_credit
    /\ r.montant > 0
    /\ r.description # << >>
    /\ r.compte_debit \in DOMAIN d.comptes
    /\ r.compte_credit \in DOMAIN d.comptes

\* C11: a successful record with valid arguments adds exactly one
\* transaction, increases the debit account's balance by the amount,
\* decreases the credit account's balance by the amount, and leaves every
\* other balance and every transaction stored before unchanged.
C11_RecordFrame ==
    [][(/\ call'.op \in {"form", "ajouter"}
        /\ call'.ok
        /\ ValidArgs(db, call'.req)) =>
           LET r == call'.req
           IN  /\ db.transactions \subseteq db'.transactions
               /\ Cardinality(db'.transactions \ db.transactions) = 1
               /\ DOMAIN db'.comptes = DOMAIN db.comptes
               /\ db'.comptes[r.compte_debit] =
                      db.comptes[r.compte_debit] + r.montant
               /\ db'.comptes[r.compte_credit] =
                      db.comptes[r.compte_credit] - r.montant
               /\ \A c \in DOMAIN db.comptes \ {r.compte_debit, r.compte_credit} :
                      db'.comptes[c] = db.comptes[c]]_vars

\* The part of C11 that does not depend on the arithmetic: one row added,
\* the rows stored before and the other balances untouched.
C11_FrameOnly ==
    [][(/\ call'.op \in {"form", "ajouter"}
        /\ call'.ok
        /\ ValidArgs(db, call'.req)) =>
           LET r == call'.req
           IN  /\ db.transactions \subseteq db'.transactions
               /\ Cardinality(db'.transactions \ db.transactions) = 1
               /\ DOMAIN db'.comptes = DOMAIN db.comptes
               /\ \A c \in DOMAIN db.comptes \ {r.compte_debit, r.compte_credit} :
                      db'.comptes[c] = db.comptes[c]]_vars

\* The stored transactions dated in month m of year y.
DatedIn(d, y, m) ==
    {t \in d.transactions : t.date_transaction.a = y /\ t.date_transaction.m = m}

\* C12: get_synthese_mensuelle(year, month) returns exactly one entry per
\* category that has a stored transaction dated in that month, whose total
\* is the sum of the amounts of those transactions; other months contribute
\* nothing and categories without a transaction in the month are absent.
C12_Synthese ==
    (/\ call.op = "get_synthese_mensuelle"
     /\ call.fault = 0
     /\ call.annee # 0
     /\ call.mois # 0) =>
        LET sel  == DatedIn(db, call.annee, call.mois)
            cats == {t.type_transaction : t \in sel}
        IN  /\ {e.type_transaction : e \in call.synth} = cats
            /\ Cardinality(call.synth) = Cardinality(cats)
            /\ \A e \in call.synth :
                   e.total = SumMontants({t \in sel :
                                 t.type_transaction = e.type_transaction})

\* C13: transaction ids are unique and increase over the whole history:
\* no two transactions ever share an id, and each successful record is
\* given an id greater than every id given before, the ids of transactions
\* reversed since included.
C13_IdsIncrease ==
    [][/\ \A t, u \in db'.transactions : t.id = u.id => t = u
       /\ \A i \in AddedIds(db, db') : \A j \in issued : i > j]_vars

\* A record has succeeded after an earlier transaction was reversed.
C13_Witness ==
    /\ call.op \in {"form", "ajouter"}
    /\ call.ok
    /\ reversed # {}
    /\ Cardinality(issued) = 2

\* C14: reversed is terminal: once supprimer_transaction(id) has succeeded,
\* id is never stored again, no later record stores it, and every later
\* supprimer_transaction(id) answers that the transaction is not found and
\* changes nothing.
C14_ReversedTerminal ==
    [][/\ \A i \in reversed' : \A t \in db'.transactions : t.id # i
       /\ (/\ call'.op = "supprimer"
           /\ call'.id \in reversed
           /\ call'.fault # 1) =>
              /\ ~call'.ok
              /\ call'.msg = MsgNonTrouvee
              /\ db' = db]_vars

\* A transaction that was reversed has been reversed again, and a record
\* has succeeded since its reversal.
C14_Witness ==
    /\ call.op = "supprimer"
    /\ call.id \in reversed
    /\ call.msg = MsgNonTrouvee
    /\ \E t \in db.transactions : t.id > call.id

\* Date d1 is after date d2.
After(d1, d2) ==
    \/ d1.a > d2.a
    \/ d1.a = d2.a /\ d1.m > d2.m
    \/ d1.a = d2.a /\ d1.m = d2.m /\ d1.j > d2.j

\* C15: get_transactions returns the stored transactions ordered by date
\* descending, and transactions of the same date in descending id order.
C15_DateThenIdDescending ==
    (call.op = "get_transactions" /\ call.fault = 0) =>
        \A i, j \in 1 .. Len(call.rows) :
            i < j =>
                \/ After(call.rows[i].date_transaction,
                         call.rows[j].date_transaction)
                \/ /\ call.rows[i].date_transaction =
                          call.rows[j].date_transaction
                   /\ call.rows[i].id > call.rows[j].id

\* The part of C15 on the dates alone: no row comes before a row of a later
\* date.
C15_DateDescending ==
    (call.op = "get_transactions" /\ call.fault = 0) =>
        \A i, j \in 1 .. Len(call.rows) :
            i < j => ~After(call.rows[j].date_transaction,
                            call.rows[i].date_transaction)

\* C16: every stored transaction has an amount greater than zero, a debit
\* code different from its credit code, a description that is not empty,
\* and a debit code and a credit code that are registered accounts.
C16_StoredAreValid ==
    \A t \in db.transactions :
        /\ t.montant > 0
        /\ t.compte_debit # t.compte_credit
        /\ t.description # << >>
        /\ t.compte_debit \in DOMAIN db.comptes
        /\ t.compte_credit \in DOMAIN db.comptes

\* C17: init_database is idempotent: on an empty registry it creates exactly
\* the five seed accounts with balance 0, and on a populated registry (a
\* second session constructing ComptabiliteBTP) it changes no account, no
\* balance and no stored transaction.
C17_InitIdempotent ==
    /\ [](call.op = "init" =>
              /\ db.comptes =
                     [c \in {"INVEST", "SYS_BDC", "DEP_OP", "CHARGE_FIX",
                             "RECETTES"} |-> 0]
              /\ db.transactions = {})
    /\ [][call'.op = "init_database" => db' = db]_vars

\* A second construction has run on a database that holds a transaction and
\* balances that are not zero.
C17_Witness ==
    /\ call.op = "init_database"
    /\ db.transactions # {}
    /\ \E c \in DOMAIN db.comptes : db.comptes[c] # 0

\* The rules of a record, in their order, that request r breaks on
\* database d: 1 same account, 2 amount not positive, 3 empty description,
\* 4 unknown account.
BrokenRules(d, r) ==
    {k \in 1 .. 4 :
        \/ k = 1 /\ r.compte_debit = r.compte_credit
        \/ k = 2 /\ r.montant <= 0
        \/ k = 3 /\ r.description = << >>
        \/ k = 4 /\ ~({r.compte_debit, r.compte_credit} \subseteq DOMAIN d.comptes)}

\* The error of rule k; the code has no message for the fourth rule.
RuleMsg(k) ==
    CASE k = 1 -> MsgMemeCompte
      [] k = 2 -> MsgMontant
      [] k = 3 -> MsgDescription
      [] OTHER -> ""

C19_LimitIsPrefix ==
    (call.op = "get_transactions" /\ call.fault = 0) =>
        LET all == GetTransactions(db, NoLimit, 0)
        IN  /\ {all[i] : i \in 1 .. Len(all)} = db.transactions
            /\ Len(all) = Cardinality(db.transactions)
            /\ IF call.limit.given
               THEN /\ Len(call.rows) <= call.limit.n
                    /\ call.rows = SubSeq(all, 1, Len(call.rows))
                    /\ Len(call.rows) = call.limit.n \/ call.rows = all
               ELSE call.rows = all

\* The same for the limits n >= 1.
C19_PositiveLimitIsPrefix ==
    (/\ call.op = "get_transactions"
     /\ call.fault = 0
     /\ call.limit.given
     /\ call.limit.n >= 1) =>
        LET all == GetTransactions(db, NoLimit, 0)
        IN  /\ Len(call.rows) <= call.limit.n
            /\ call.rows = SubSeq(all, 1, Len(call.rows))
            /\ Len(call.rows) = call.limit.n \/ call.rows = all

\* C20: a successful supprimer_transaction(id) removes exactly the
\* transaction with that id, changes the balance of its debit account by
\* minus its amount and of its credit account by plus its amount, and leaves
\* every other balance and every other stored transaction unchanged.
C20_ReverseFrame ==
    [][(call'.op = "supprimer" /\ call'.ok) =>
           \E t \in db.transactions :
               /\ t.id = call'.id
               /\ db'.transactions = db.transactions \ {t}
               /\ DOMAIN db'.comptes = DOMAIN db.comptes
               /\ \A c \in DOMAIN db.comptes :
                      db'.comptes[c] =
                          db.comptes[c]
                          - (IF c = t.compte_debit THEN t.montant ELSE 0)
                          + (IF c = t.compte_credit THEN t.montant ELSE 0)]_vars

\* The part of C20 that does not depend on the arithmetic: the one row
\* removed, the other rows and the other balances untouched.
C20_FrameOnly ==
    [][(call'.op = "supprimer" /\ call'.ok) =>
           \E t \in db.transactions :
               /\ t.id = call'.id
               /\ db'.transactions = db.transactions \ {t}
               /\ DOMAIN db'.comptes = DOMAIN db.comptes
               /\ \A c \in DOMAIN db.comptes \ {t.compte_debit, t.compte_credit} :
                      db'.comptes[c] = db.comptes[c]]_vars

\* ------------------------------------------ claims on the sum and the gate

\* The call that led to the next state names registered accounts only: a
\* record whose two codes are in the registry, or a reversal of a
\* transaction whose two codes are in the registry.
RegisteredCall ==
    \/ /\ call'.op \in {"form", "ajouter"}
       /\ {call'.req.compte_debit, call'.req.compte_credit}
              \subseteq DOMAIN db.comptes
    \/ /\ call'.op = "supprimer"
       /\ \A t \in SelectTransaction(db, call'.id) :
              {t.compte_debit, t.compte_credit} \subseteq DOMAIN db.comptes

\* C21: when the debit code and the credit code of every recorded
\* transaction are registered accounts, the balances sum to 0 after every
\* sequence of ajouter_transaction and supprimer_transaction calls made one
\* at a time, amounts that are zero or negative and equal codes included:
\* the sum is 0 at the start, and a call that names registered accounts
\* only takes a state where the sum is 0 to a state where it is 0.
C21_SumStaysZero ==
    /\ [](call.op = "init" => SumSoldes(db.comptes, DOMAIN db.comptes) = 0)
    /\ [][(/\ RegisteredCall
           /\ SumSoldes(db.comptes, DOMAIN db.comptes) = 0) =>
              SumSoldes(db'.comptes, DOMAIN db'.comptes) = 0]_vars

\* A step in which main() performs a ledger operation: a construction of
\* ComptabiliteBTP, a read, a record or a reversal.
LedgerStep == call' # call \/ db' # db

\* A step in which a password is typed into the input.
EntryStep == session'.entered # session.entered

\* C22: the password gate guards the ledger: main() performs a ledger
\* operation (read, record or reversal) only in a state where
\* password_correct is True; password_correct becomes True only when the
\* password typed equals the configured one; a wrong password sets it to
\* False and blocks access; a correct password typed later grants access.
C22_PasswordGate ==
    [][/\ LedgerStep => session'.password_correct = "True"
       /\ (session'.password_correct = "True"
               /\ session.password_correct # "True") =>
              EntryStep /\ session'.entered = "btp2024"
       /\ (EntryStep /\ session'.entered # "btp2024") =>
              /\ session'.password_correct = "False"
              /\ ~LedgerStep
              /\ session'.widget
       /\ (EntryStep /\ session'.entered = "btp2024") =>
              /\ session'.password_correct = "True"
              /\ ~session'.widget
              /\ session'.compta]_vars

\* After a wrong password and then the right one, a form has been recorded.
C22_Witness ==
    /\ session.refused
    /\ session.password_correct = "True"
    /\ call.op = "form"
    /\ call.ok

====
